---- MODULE Spec2Model ----
(***************************************************************************)
(* Model of the aisa-serverless HTTP handlers:                             *)
(*   guardar_resultado  (save an exam result,   src/unnamed/part_000:1-70)  *)
(*   obtener_resultado  (get a result by id,    src/pages/api/...)          *)
(*   generar_examen, direct-image variant       (part_000:107-223)          *)
(*   generar_examen, schema-constrained variant (part_000:275-356)          *)
(*   generar_examen, OCR-then-text variant      (part_001:80-158)           *)
(* Each action is one synchronous run of a handler between two awaits; an  *)
(* await of a settled promise ends the run as well.                        *)
(* The two result routes share the store and the database connection       *)
(* (Spec); the generar_examen variants share nothing with them and are     *)
(* versions of one route (GenSpec); the id generator is a pure function    *)
(* (IdSpec).                                                               *)
(* JavaScript values are tagged records; strings are sequences of          *)
(* one-character strings so that string operations are computed.           *)
(***************************************************************************)
EXTENDS Integers, Sequences, FiniteSets, TLC

(***************************************************************************)
(* Bounds of the model.                                                    *)
(***************************************************************************)
\* requests started over one run of the process
MaxRequests == 2
\* requests in flight at the same time
MaxInFlight == 2
\* Math.random() is modelled on the grid k / 2^RandBits, 0 <= k < 2^RandBits
RandBits == 13

Reqs == 1..MaxInFlight

RECURSIVE Pow2(_)
Pow2(n) == IF n = 0 THEN 1 ELSE 2 * Pow2(n - 1)

RandDen == Pow2(RandBits)

(***************************************************************************)
(* JavaScript values.                                                      *)
(***************************************************************************)
Undefined == [t |-> "undefined"]
Null      == [t |-> "null"]
Num(n)    == [t |-> "number", n |-> n]
Str(s)    == [t |-> "string", s |-> s]
Obj(m)    == [t |-> "object", m |-> m]
Arr(a)    == [t |-> "array", a |-> a]

\* the values for which !v is true (no NaN or boolean occurs in the model)
Falsy(v) ==
    \/ v.t \in {"undefined", "null"}
    \/ v.t = "number" /\ v.n = 0
    \/ v.t = "string" /\ v.s = << >>

Nullish(v) == v.t \in {"undefined", "null"}

(***************************************************************************)
(* Strings: radix-36 formatting, substring, toUpperCase, decimal parsing.  *)
(***************************************************************************)
Lower36 == << "0", "1", "2", "3", "4", "5", "6", "7", "8", "9",
              "a", "b", "c", "d", "e", "f", "g", "h", "i", "j", "k", "l", "m",
              "n", "o", "p", "q", "r", "s", "t", "u", "v", "w", "x", "y", "z" >>
Upper36 == << "0", "1", "2", "3", "4", "5", "6", "7", "8", "9",
              "A", "B", "C", "D", "E", "F", "G", "H", "I", "J", "K", "L", "M",
              "N", "O", "P", "Q", "R", "S", "T", "U", "V", "W", "X", "Y", "Z" >>

CharSet(s) == { s[i] : i \in 1..Len(s) }
IndexOf(s, c) == CHOOSE i \in 1..Len(s) : s[i] = c

\* String.prototype.toUpperCase, one character
UpperChar(c) == IF c \in CharSet(Lower36) THEN Upper36[IndexOf(Lower36, c)] ELSE c
\* String.prototype.toLowerCase, one character (used to build request inputs)
LowerChar(c) == IF c \in CharSet(Upper36) THEN Lower36[IndexOf(Upper36, c)] ELSE c

toUpperCase(s) == [i \in 1..Len(s) |-> UpperChar(s[i])]
toLowerCase(s) == [i \in 1..Len(s) |-> LowerChar(s[i])]

\* String.prototype.substring(a, b) for 0 <= a <= b
substring(s, a, b) ==
    LET e == IF b < Len(s) THEN b ELSE Len(s)
    IN  IF a >= e THEN << >> ELSE SubSeq(s, a + 1, e)

\* the base-36 digits of the fraction n / den, 0 <= n < den, den a power of 2
\* (the expansion ends: every base-36 digit uses up two binary digits)
RECURSIVE FracDigits36(_, _)
FracDigits36(n, den) ==
    IF n = 0 THEN << >>
    ELSE << Lower36[((n * 36) \div den) + 1] >> \o FracDigits36((n * 36) % den, den)

\* Number.prototype.toString(36) of the value k / RandDen in [0, 1)
toString36(k) ==
    IF k = 0 THEN << "0" >> ELSE << "0", "." >> \o FracDigits36(k, RandDen)

DecDigits == << "0", "1", "2", "3", "4", "5", "6", "7", "8", "9" >>
IsDecimal(s) == s # << >> /\ CharSet(s) \subseteq CharSet(DecDigits)
RECURSIVE ParseDecimal(_)
ParseDecimal(s) ==
    IF s = << >> THEN 0
    ELSE 10 * ParseDecimal(SubSeq(s, 1, Len(s) - 1)) + (IndexOf(DecDigits, s[Len(s)]) - 1)

(***************************************************************************)
(* guardar_resultado: the id generator.                                    *)
(***************************************************************************)
\* 'R_' + Math.random().toString(36).substring(2, 8).toUpperCase()
generateUniqueId(k) == << "R", "_" >> \o toUpperCase(substring(toString36(k), 2, 8))


\* the values of Math.random() the handlers draw in the request model
RandomSamples == { RandDen \div 2, 1 }

(***************************************************************************)
(* ResultadoSchema: casting at construction, validation and storage on     *)
(* save, and the unique index on uniqueId.                                 *)
(***************************************************************************)
\* type: Number. A numeric string is converted, the empty string becomes
\* null, anything else that is not a number is a cast error.
CastNumber(v) ==
    CASE v.t = "number" -> [ok |-> TRUE, v |-> v]
      [] Nullish(v)     -> [ok |-> TRUE, v |-> v]
      [] v.t = "string" ->
            IF v.s = << >> THEN [ok |-> TRUE, v |-> Null]
            ELSE IF IsDecimal(v.s) THEN [ok |-> TRUE, v |-> Num(ParseDecimal(v.s))]
            ELSE [ok |-> FALSE, v |-> Undefined]
      [] OTHER          -> [ok |-> FALSE, v |-> Undefined]

\* type: Array. A value that is not an array is wrapped in one.
CastArray(v) ==
    CASE v.t = "array" -> [ok |-> TRUE, v |-> v]
      [] Nullish(v)    -> [ok |-> TRUE, v |-> v]
      [] OTHER         -> [ok |-> TRUE, v |-> Arr(<< v >>)]

\* type: Object (Mixed). Kept as given.
CastMixed(v) == [ok |-> TRUE, v |-> v]

\* new Resultado({ uniqueId, puntuacion, respuestas, totalPreguntas, examen })
\* with timestamp defaulted to the current time
Resultado(uniqueId, body, now) ==
    [ uniqueId       |-> uniqueId,
      timestamp      |-> now,
      puntuacion     |-> CastNumber(body.puntuacion),
      respuestas     |-> CastMixed(body.respuestas),
      totalPreguntas |-> CastNumber(body.totalPreguntas),
      examen         |-> CastArray(body.examen) ]

Validates(m) ==
    \A f \in {"puntuacion", "respuestas", "totalPreguntas", "examen"} :
        m[f].ok /\ ~Nullish(m[f].v)

\* the stored document; an empty object is not stored (schema option minimize)
Minimize(v) == IF v.t = "object" /\ DOMAIN v.m = {} THEN Undefined ELSE v

ToDocument(m) ==
    [ uniqueId       |-> m.uniqueId,
      timestamp      |-> m.timestamp,
      puntuacion     |-> m.puntuacion.v,
      respuestas     |-> Minimize(m.respuestas.v),
      totalPreguntas |-> m.totalPreguntas.v,
      examen         |-> m.examen.v ]

\* an insert that replaces the document of the same uniqueId
InsertOneOverwrite(coll, doc) ==
    [ok |-> TRUE, coll |-> { d \in coll : d.uniqueId # doc.uniqueId } \cup {doc}]

\* insert under the unique index on uniqueId: a duplicate key is an error
InsertOne(coll, doc) ==
    IF \E d \in coll : d.uniqueId = doc.uniqueId
    THEN [ok |-> FALSE, coll |-> coll]
    ELSE [ok |-> TRUE, coll |-> coll \cup {doc}]

\* a lookup that ignores case
FindOneAnyCase(coll, shareId) ==
    { d \in coll : toUpperCase(d.uniqueId) = toUpperCase(shareId.s) }

\* Resultado.findOne({ uniqueId: shareId }).lean(): exact string match
FindOne(coll, shareId) ==
    { d \in coll : d.uniqueId = shareId.s }


(***************************************************************************)
(* Request inputs.                                                         *)
(***************************************************************************)
Q1 == Obj([id |-> "q1"])

BasePayload ==
    [ puntuacion     |-> Num(8),
      respuestas     |-> Obj([q1 |-> "a"]),
      totalPreguntas |-> Num(10),
      examen         |-> Arr(<< Q1 >>) ]

\* the base payload with one field replaced
Payloads ==
    {BasePayload}
    \cup { [BasePayload EXCEPT !.puntuacion = v] :
             v \in {Undefined, Num(0), Str(<< "8" >>), Str(<< "x" >>)} }
    \cup { [BasePayload EXCEPT !.respuestas = v] : v \in {Obj(<< >>)} }
    \cup { [BasePayload EXCEPT !.totalPreguntas = v] : v \in {Undefined} }
    \cup { [BasePayload EXCEPT !.examen = v] : v \in {Q1} }

\* req.query.shareId: absent, empty, an id the generator can produce, or
\* the same id in lower case
ShareIds ==
    {Undefined, Str(<< >>)}
    \cup { Str(generateUniqueId(k)) : k \in RandomSamples }
    \cup { Str(toLowerCase(generateUniqueId(RandDen \div 2))) }

\* the requests received by guardar_resultado: a POST with each payload, and
\* one request with another method
guardar_Requests ==
    { [method |-> "POST", body |-> b] : b \in Payloads }
    \cup { [method |-> "GET", body |-> BasePayload] }

\* the requests received by obtener_resultado: a GET with each shareId, and
\* one request with another method
obtener_Requests ==
    { [method |-> "GET", shareId |-> s] : s \in ShareIds }
    \cup { [method |-> "POST", shareId |-> Str(generateUniqueId(1))] }

(***************************************************************************)
(* State.                                                                  *)
(***************************************************************************)
VARIABLES
    rq,          \* rq[r]: the request in flight in slot r (see Fresh), or Idle
    fin,         \* the request that ended last, as it ended
    store,       \* the Resultado collection: a set of documents
    readyState,  \* mongoose.connections[0].readyState: 0, 1 (connected), 2 (connecting)
    started,     \* requests received so far; also the clock of Date.now
    acks,        \* history: the (shareId, body) pairs answered with 201
    idIn,        \* the id generator alone: the value of Math.random(), as k / RandDen
    idOut        \* the id generator alone: the id produced, << >> before

vars == << rq, fin, store, readyState, started, acks, idIn, idOut >>

NoCalls == [db |-> 0, ocr |-> 0, gen |-> 0, reads |-> 0]

\* a request as the handler receives it
Fresh(kind, method, inp) ==
    [ pc      |-> "start",
      kind    |-> kind,
      method  |-> method,
      inp     |-> inp,
      loc     |-> << >>,     \* the handler's local variables across awaits
      res     |-> << >>,     \* the responses sent, in order
      escaped |-> FALSE,     \* an exception left the handler
      calls   |-> NoCalls,   \* database, OCR, generation calls and file reads made
      tmp     |-> << >>,     \* the request's uploaded files in the temporary directory
      wrote   |-> {},        \* history: the documents this request inserted
      acked   |-> FALSE ]    \* history: the id asked for had been answered 201
                             \* when the database ran the query

Idle == [Fresh("none", "NONE", << >>) EXCEPT !.pc = "idle"]

\* res.status(status).json({ error, ... }) or .json(data), then return
Reply(q, status, error, data) ==
    [q EXCEPT !.pc  = "done",
              !.res = Append(@, [status |-> status, json |-> TRUE,
                                 error |-> error, data |-> data])]

\* res.status(status).end(text): a body that is not JSON
ReplyText(q, status) ==
    [q EXCEPT !.pc  = "done",
              !.res = Append(@, [status |-> status, json |-> FALSE,
                                 error |-> "", data |-> << >>])]

Called(q, what) == [q EXCEPT !.calls[what] = @ + 1]

\* a request is received in the first free slot
CanStart(r) ==
    /\ rq[r].pc = "idle"
    /\ \A s \in Reqs : s < r => rq[s].pc # "idle"
    /\ started < MaxRequests

\* slot r goes on as q; a request that has ended leaves its slot
Step(r, q) ==
    IF q.pc = "done"
    THEN /\ rq' = [rq EXCEPT ![r] = Idle]
         /\ fin' = q
    ELSE /\ rq' = [rq EXCEPT ![r] = q]
         /\ UNCHANGED fin

Init ==
    /\ rq = [r \in Reqs |-> Idle]
    /\ fin = Idle
    /\ store = {}
    /\ readyState = 0
    /\ started = 0
    /\ acks = {}
    /\ idIn = 0
    /\ idOut = << >>

(***************************************************************************)
(* connectToDatabase (src/unnamed/part_000:22-30, obtener_resultado.js:    *)
(* 21-24): readyState is 0 disconnected, 1 connected, 2 connecting.        *)
(* mongoose.connect sets it to 2 before its first await.                   *)
(***************************************************************************)
\* the test with readyState === 1 in place of truthiness
connectToDatabase_ReturnsIfConnected(rs) == rs = 1

\* if (mongoose.connections[0].readyState) return;
connectToDatabase_Returns(rs) == rs # 0

(***************************************************************************)
(* guardar_resultado (src/unnamed/part_000:36-70)                          *)
(***************************************************************************)
\* lines 45-64 with save() not awaited
guardar_BodyNoAwait(q, k, now) ==
    IF \/ Falsy(q.inp.puntuacion) \/ Falsy(q.inp.respuestas)
       \/ Falsy(q.inp.totalPreguntas) \/ Falsy(q.inp.examen)
    THEN Reply(q, 400, "Faltan datos", "")
    ELSE Reply([q EXCEPT !.loc = [uniqueId |-> generateUniqueId(k),
                                  newResultado |-> Resultado(generateUniqueId(k), q.inp, now)]],
               201, "", [shareId |-> generateUniqueId(k)])

\* lines 45-61: after the connection is there, up to the call of save()
guardar_Body(q, k, now) ==
    IF \/ Falsy(q.inp.puntuacion) \/ Falsy(q.inp.respuestas)
       \/ Falsy(q.inp.totalPreguntas) \/ Falsy(q.inp.examen)
    THEN Reply(q, 400, "Faltan datos", "")
    ELSE [q EXCEPT !.pc = "g_save",
                   !.loc = [uniqueId |-> generateUniqueId(k),
                            newResultado |-> Resultado(generateUniqueId(k), q.inp, now)]]

\* lines 37-42: the method check, then connectToDatabase (lines 22-30) up to
\* its first await, or its return at line 23; the handler is suspended at
\* the await of line 42 in both cases
guardar_Start(r) ==
    /\ CanStart(r)
    /\ \E req \in guardar_Requests :
         LET q == Fresh("guardar", req.method, req.body) IN
         /\ started' = started + 1
         /\ IF req.method # "POST"
            THEN /\ Step(r, Reply(q, 405, "Solo POST", ""))
                 /\ UNCHANGED readyState
            ELSE IF connectToDatabase_Returns(readyState)
            THEN /\ Step(r, [Called(q, "db") EXCEPT !.pc = "g_await"])
                 /\ UNCHANGED readyState
            ELSE /\ Step(r, [Called(q, "db") EXCEPT !.pc = "g_connect"])
                 /\ readyState' = 2
    /\ UNCHANGED << store, acks, idIn, idOut >>

\* line 25: mongoose.connect(uri) settles; the library has changed
\* readyState, the handler has not resumed yet
guardar_Connected(r) ==
    /\ rq[r].pc = "g_connect"
    /\ \/ /\ readyState' = 1
          /\ Step(r, [rq[r] EXCEPT !.pc = "g_await"])
       \/ /\ readyState' = 0
          /\ Step(r, [rq[r] EXCEPT !.pc = "g_throw"])
    /\ UNCHANGED << store, started, acks, idIn, idOut >>

\* line 42: the handler resumes after await connectToDatabase(): lines 45-61,
\* or, when the setup threw (lines 26-29), the catch of lines 66-69
guardar_Resume(r) ==
    /\ rq[r].pc \in {"g_await", "g_throw"}
    /\ IF rq[r].pc = "g_await"
       THEN \E k \in RandomSamples : Step(r, guardar_Body(rq[r], k, started))
       ELSE Step(r, Reply(rq[r], 500, "Error interno al guardar",
                                      "No se pudo conectar a la base de datos."))
    /\ UNCHANGED << store, readyState, started, acks, idIn, idOut >>

\* line 61: the database applies the insert of save() and its
\* acknowledgement does not arrive: the document is stored, the handler
\* is still suspended at the await
guardar_WriteApplied(r) ==
    /\ rq[r].pc = "g_save"
    /\ rq[r].wrote = {}
    /\ readyState = 1
    /\ LET m == rq[r].loc.newResultado
           ins == InsertOne(store, ToDocument(m))
       IN  /\ Validates(m)
           /\ ins.ok
           /\ store' = ins.coll
           /\ Step(r, [rq[r] EXCEPT !.wrote = {ToDocument(m)}])
    /\ UNCHANGED << readyState, started, acks, idIn, idOut >>

\* line 61: newResultado.save() settles: validation, then the insert; the
\* promise rejects when the operation fails, before any write or after a
\* write whose acknowledgement was lost. A rejection goes to the catch of
\* lines 66-69, which reads no shared state
guardar_SaveDone(r) ==
    /\ rq[r].pc = "g_save"
    /\ LET m == rq[r].loc.newResultado
           q == Called(rq[r], "db")
       IN  IF rq[r].wrote # {}
           THEN /\ Step(r, Reply(q, 500, "Error interno al guardar",
                                                 "operation failed"))
                /\ UNCHANGED store
           ELSE IF ~Validates(m)
           THEN /\ Step(r, Reply(q, 500, "Error interno al guardar",
                                                 "ValidationError"))
                /\ UNCHANGED store
           ELSE \/ /\ readyState = 1
                   /\ LET ins == InsertOne(store, ToDocument(m)) IN
                      IF ins.ok
                      THEN /\ store' = ins.coll
                           /\ Step(r, [q EXCEPT !.pc = "g_saved",
                                                 !.wrote = @ \cup {ToDocument(m)}])
                      ELSE /\ UNCHANGED store
                           /\ Step(r, Reply(q, 500, "Error interno al guardar",
                                                            "E11000 duplicate key"))
                \* the operation fails before any write: network error, or
                \* buffering timed out
                \/ /\ Step(r, Reply(q, 500, "Error interno al guardar",
                                                    "operation failed"))
                   /\ UNCHANGED store
    /\ UNCHANGED << readyState, started, acks, idIn, idOut >>

\* line 64: the handler resumes after the committed save
guardar_Respond(r) ==
    /\ rq[r].pc = "g_saved"
    /\ Step(r, Reply(rq[r], 201, "", [shareId |-> rq[r].loc.uniqueId]))
    /\ acks' = acks \cup {[shareId |-> rq[r].loc.uniqueId, body |-> rq[r].inp]}
    /\ UNCHANGED << store, readyState, started, idIn, idOut >>

(***************************************************************************)
(* obtener_resultado (src/pages/api/obtener_resultado.js:26-55)            *)
(***************************************************************************)
\* line 42 onwards: findOne is issued
obtener_Query(q) == [Called(q, "db") EXCEPT !.pc = "o_find"]

\* lines 27-39: the checks, then connectToDatabase (lines 21-24) up to its
\* await, or its return at line 22; the handler is suspended at the await of
\* line 39 in both cases
obtener_Start(r) ==
    /\ CanStart(r)
    /\ \E req \in obtener_Requests :
         LET q == Fresh("obtener", req.method, [shareId |-> req.shareId]) IN
         /\ started' = started + 1
         /\ IF req.method # "GET"
            THEN /\ Step(r, Reply(q, 405, "Solo GET", ""))
                 /\ UNCHANGED readyState
            ELSE IF Falsy(req.shareId)
            THEN /\ Step(r, Reply(q, 400, "Falta shareId", ""))
                 /\ UNCHANGED readyState
            ELSE IF connectToDatabase_Returns(readyState)
            THEN /\ Step(r, [Called(q, "db") EXCEPT !.pc = "o_await"])
                 /\ UNCHANGED readyState
            ELSE /\ Step(r, [Called(q, "db") EXCEPT !.pc = "o_connect"])
                 /\ readyState' = 2
    /\ UNCHANGED << store, acks, idIn, idOut >>

\* line 23: mongoose.connect(uri) settles; the library has changed
\* readyState, the handler has not resumed yet
obtener_Connected(r) ==
    /\ rq[r].pc = "o_connect"
    /\ \/ /\ readyState' = 1
          /\ Step(r, [rq[r] EXCEPT !.pc = "o_await"])
       \/ /\ readyState' = 0
          /\ Step(r, [rq[r] EXCEPT !.pc = "o_throw"])
    /\ UNCHANGED << store, started, acks, idIn, idOut >>

\* line 39: the handler resumes after await connectToDatabase(): the findOne
\* of line 42 is issued, or, when the setup threw, the catch of lines 51-53
obtener_Resume(r) ==
    /\ rq[r].pc \in {"o_await", "o_throw"}
    /\ IF rq[r].pc = "o_await"
       THEN Step(r, obtener_Query(rq[r]))
       ELSE Step(r, Reply(rq[r], 500, "Error interno al obtener",
                                      "connect failed"))
    /\ UNCHANGED << store, readyState, started, acks, idIn, idOut >>

\* line 42: the database runs findOne({ uniqueId: shareId }) and the promise
\* settles; the handler has not resumed yet. A rejection goes to the catch
\* of lines 51-53, which reads no shared state
obtener_FindDone(r) ==
    /\ rq[r].pc = "o_find"
    /\ \/ /\ readyState = 1
          /\ Step(r, [rq[r] EXCEPT
                        !.pc = "o_found",
                        !.loc = [found |-> FindOne(store, rq[r].inp.shareId)],
                        !.acked = \E a \in acks : Str(a.shareId) = rq[r].inp.shareId])
       \/ Step(r, Reply(rq[r], 500, "Error interno al obtener",
                                        "operation failed"))
    /\ UNCHANGED << store, readyState, started, acks, idIn, idOut >>

\* lines 44-49: the handler resumes with the answer of the query
obtener_Respond(r) ==
    /\ rq[r].pc = "o_found"
    /\ IF rq[r].loc.found = {}
       THEN Step(r, Reply(rq[r], 404, "Resultado no encontrado", ""))
       ELSE \E d \in rq[r].loc.found :
              Step(r, Reply(rq[r], 200, "", [resultado |-> d]))
    /\ UNCHANGED << store, readyState, started, acks, idIn, idOut >>

(***************************************************************************)
(* generar_examen: uploads, the temporary directory, the providers.        *)
(***************************************************************************)
MinOcrText == 50

Mime == Str(<< "image/png" >>)
Part(field, mimetype) == [field |-> field, mimetype |-> mimetype]

\* the file parts of the multipart body, in order. formidable emits a part
\* as a file only when it has a Content-Type, so every file has a mimetype
Uploads ==
    { << >>,
      << Part("files", Mime) >>,
      << Part("files", Mime), Part("files", Mime) >>,
      << Part("file", Mime) >>,
      << Part("file", Mime), Part("files", Mime) >> }

\* form.parse has written every file part to the temporary directory;
\* the filepath of a file is its index
Stored(upload) ==
    [i \in 1..Len(upload) |->
        [field |-> upload[i].field, mimetype |-> upload[i].mimetype,
         exists |-> TRUE, unlinks |-> 0]]

\* files[field]: the indices of the files uploaded under the field name
FilesOf(tmp, field) == { i \in 1..Len(tmp) : tmp[i].field = field }

Min(S) == CHOOSE x \in S : \A y \in S : x <= y

\* fs.unlinkSync(filepath) of the files in S, in order, the unlink of file
\* failAt throwing (0: none throws); the files after it are not reached
UnlinkAll(tmp, S, failAt) ==
    [i \in 1..Len(tmp) |->
        IF i \in S /\ (failAt = 0 \/ i < failAt)
        THEN [tmp[i] EXCEPT !.exists = FALSE, !.unlinks = @ + 1]
        ELSE tmp[i]]

\* the text of the length n
Text(n) == Str([i \in 1..n |-> "a"])

\* result.fullTextAnnotation?.text
OcrTexts ==
    {Undefined} \cup { Text(n) : n \in {0, 1, MinOcrText - 1, MinOcrText, MinOcrText + 1} }

\* what the generation provider does: throws, or returns text that is or is
\* not JSON
GenOutcomes == {"throws", "invalid", "json"}

(***************************************************************************)
(* generar_examen, direct-image variant (src/unnamed/part_000:107-223)     *)
(***************************************************************************)
\* lines 146-152: the files the loop reads
directo_Readable(tmp) ==
    { i \in FilesOf(tmp, "files") : ~Falsy(tmp[i].mimetype) }

\* lines 108-131
directo_Start(r) ==
    /\ CanStart(r)
    /\ \E method \in {"POST", "GET"}, upload \in Uploads :
         LET q == Fresh("directo", method, [upload |-> upload]) IN
         /\ started' = started + 1
         /\ IF method # "POST"
            THEN Step(r, ReplyText(q, 405))
            ELSE Step(r, [q EXCEPT !.pc = "d_parse"])
    /\ UNCHANGED << store, readyState, acks, idIn, idOut >>

\* lines 134-152 without the return of lines 140-142
directo_AfterParseNoCheck(q) ==
    IF directo_Readable(q.tmp) = {}
    THEN [Called(q, "gen") EXCEPT !.pc = "d_gen"]
    ELSE [q EXCEPT !.pc = "d_read"]

\* lines 134-152: after the form is parsed, up to the first await
directo_AfterParse(q) ==
    IF FilesOf(q.tmp, "files") = {}
    THEN Reply(q, 400, "No se encontraron archivos", "")
    ELSE IF directo_Readable(q.tmp) = {}
    THEN [Called(q, "gen") EXCEPT !.pc = "d_gen"]
    ELSE [q EXCEPT !.pc = "d_read"]

\* lines 117-142: form.parse settles
directo_Parsed(r) ==
    /\ rq[r].pc = "d_parse"
    /\ \/ Step(r, Reply(rq[r], 500, "Error interno del servidor", "parse error"))
       \/ Step(r, directo_AfterParse([rq[r] EXCEPT !.tmp = Stored(rq[r].inp.upload)]))
    /\ UNCHANGED << store, readyState, started, acks, idIn, idOut >>

\* the files of S the loop has still to read after n of them
directo_Pending(S, n) == { i \in S : Cardinality({ j \in S : j < i }) >= n }

\* line 149: the pending fs.readFile settles; the loop goes on to the next
\* file (146-152) or, after the last, to the call of the provider (191)
directo_Read(r) ==
    /\ rq[r].pc = "d_read"
    /\ LET S == directo_Readable(rq[r].tmp)
           q == [rq[r] EXCEPT !.calls.reads = @ + 1]
       IN  \/ IF directo_Pending(S, q.calls.reads) = {}
              THEN Step(r, [Called(q, "gen") EXCEPT !.pc = "d_gen"])
              ELSE Step(r, q)
           \/ Step(r, Reply(rq[r], 500, "Error interno del servidor", "readFile failed"))
    /\ UNCHANGED << store, readyState, started, acks, idIn, idOut >>

\* lines 191-222: generateContent settles
directo_Generated(r) ==
    /\ rq[r].pc = "d_gen"
    /\ \E out \in GenOutcomes :
         CASE out = "throws" ->
                Step(r, Reply(rq[r], 500, "Error interno del servidor", "provider error"))
           [] out = "invalid" ->
                Step(r, Reply(rq[r], 500, "La IA devolvio un formato invalido", "jsonText"))
           [] out = "json" ->
                Step(r, Reply(rq[r], 200, "", [examen |-> "parsedJson"]))
    /\ UNCHANGED << store, readyState, started, acks, idIn, idOut >>

(***************************************************************************)
(* generar_examen, schema-constrained variant (part_000:275-356)           *)
(***************************************************************************)
esquema_Finally(q, failAt) ==
    [q EXCEPT !.tmp = UnlinkAll(q.tmp, FilesOf(q.tmp, "files"), failAt),
              !.escaped = (failAt # 0)]

\* the choices of the unlink that throws
FailAts(S) == {0} \cup S

\* lines 277-298
esquema_Start(r) ==
    /\ CanStart(r)
    /\ \E method \in {"POST", "GET", "OPTIONS"}, upload \in Uploads :
         LET q == Fresh("esquema", method, [upload |-> upload]) IN
         /\ started' = started + 1
         /\ IF method = "OPTIONS"
            THEN Step(r, ReplyText(q, 200))
            ELSE IF method # "POST"
            THEN Step(r, Reply(q, 405, "Solo POST", ""))
            ELSE Step(r, [q EXCEPT !.pc = "s_parse"])
    /\ UNCHANGED << store, readyState, acks, idIn, idOut >>

\* lines 293-335: form.parse settles outside the try; then the files are
\* read synchronously and the provider is called
esquema_Parsed(r) ==
    /\ rq[r].pc = "s_parse"
    /\ \/ Step(r, [rq[r] EXCEPT !.pc = "done", !.escaped = TRUE])
       \/ LET q == [rq[r] EXCEPT !.tmp = Stored(rq[r].inp.upload)]
              S == FilesOf(q.tmp, "files")
          IN  IF S = {}
              THEN Step(r, Reply(q, 400, "No se ha subido ningun archivo", ""))
              ELSE \/ Step(r, [q EXCEPT !.pc = "s_gen",
                                        !.calls.reads = Cardinality(S),
                                        !.calls.gen = @ + 1])
                   \/ \E i \in S, failAt \in FailAts(S) :
                        Step(r, esquema_Finally(
                                  Reply([q EXCEPT !.calls.reads = Cardinality({j \in S : j < i})],
                                        500, "Error al procesar con Gemini", "readFileSync failed"),
                                  failAt))
    /\ UNCHANGED << store, readyState, started, acks, idIn, idOut >>

\* lines 328-355: generateContent settles, the response, the finally block
esquema_Generated(r) ==
    /\ rq[r].pc = "s_gen"
    /\ \E out \in GenOutcomes, failAt \in FailAts(FilesOf(rq[r].tmp, "files")) :
         IF out = "json"
         THEN Step(r, esquema_Finally(Reply(rq[r], 200, "", [examen |-> "examenJSON"]), failAt))
         ELSE Step(r, esquema_Finally(
                        Reply(rq[r], 500, "Error al procesar con Gemini", out), failAt))
    /\ UNCHANGED << store, readyState, started, acks, idIn, idOut >>

(***************************************************************************)
(* generar_examen, OCR-then-text variant (src/unnamed/part_001:80-158)     *)
(***************************************************************************)
ocr_Finally(q, filePath, fails) ==
    IF filePath = 0 \/ fails THEN q
    ELSE [q EXCEPT !.tmp = UnlinkAll(q.tmp, {filePath}, 0)]

\* the guard with the bound itself refused
ocr_InsufficientLe(studyText) == Falsy(studyText) \/ Len(studyText.s) <= MinOcrText

\* line 108
ocr_Insufficient(studyText) == Falsy(studyText) \/ Len(studyText.s) < MinOcrText

\* lines 81-89
ocr_Start(r) ==
    /\ CanStart(r)
    /\ \E method \in {"POST", "GET"}, upload \in Uploads :
         LET q == Fresh("ocr", method, [upload |-> upload]) IN
         /\ started' = started + 1
         /\ IF method # "POST"
            THEN Step(r, Reply(q, 405, "Solo POST", ""))
            ELSE Step(r, [q EXCEPT !.pc = "c_parse"])
    /\ UNCHANGED << store, readyState, acks, idIn, idOut >>

\* lines 89-105: parseForm settles, the file is read, the OCR call is made
ocr_Parsed(r) ==
    /\ rq[r].pc = "c_parse"
    /\ \/ Step(r, Reply(rq[r], 500, "Error interno del servidor Serverless", "parse error"))
       \/ LET q == [rq[r] EXCEPT !.tmp = Stored(rq[r].inp.upload)]
              S == FilesOf(q.tmp, "file")
          IN  IF S = {}
              THEN Step(r, ocr_Finally(Reply(q, 400, "No se proporciono un archivo", ""),
                                       0, FALSE))
              ELSE \E fails \in BOOLEAN :
                   \/ Step(r, [q EXCEPT !.pc = "c_ocr",
                                        !.loc = [filePath |-> Min(S)],
                                        !.calls.reads = @ + 1,
                                        !.calls.ocr = @ + 1])
                   \/ Step(r, ocr_Finally(
                                Reply([q EXCEPT !.loc = [filePath |-> Min(S)]],
                                      500, "Error interno del servidor Serverless",
                                      "readFileSync failed"),
                                Min(S), fails))
    /\ UNCHANGED << store, readyState, started, acks, idIn, idOut >>

\* lines 105-130: documentTextDetection settles, the minimum-text guard
ocr_Detected(r) ==
    /\ rq[r].pc = "c_ocr"
    /\ \E fails \in BOOLEAN :
       \/ Step(r, ocr_Finally(Reply(rq[r], 500, "Error interno del servidor Serverless",
                                    "vision error"),
                              rq[r].loc.filePath, fails))
       \/ \E studyText \in OcrTexts :
            LET q == [rq[r] EXCEPT !.loc = [filePath |-> rq[r].loc.filePath,
                                            studyText |-> studyText]]
            IN  IF ocr_Insufficient(studyText)
                THEN Step(r, ocr_Finally(Reply(q, 500, "OCR fallo", ""),
                                         q.loc.filePath, fails))
                ELSE Step(r, [Called(q, "gen") EXCEPT !.pc = "c_gen"])
    /\ UNCHANGED << store, readyState, started, acks, idIn, idOut >>

\* lines 124-157: generateContent settles, the response, the finally block
ocr_Generated(r) ==
    /\ rq[r].pc = "c_gen"
    /\ \E out \in GenOutcomes, fails \in BOOLEAN :
         IF out = "json"
         THEN Step(r, ocr_Finally(Reply(rq[r], 200, "", [examen |-> "examJson"]),
                                  rq[r].loc.filePath, fails))
         ELSE Step(r, ocr_Finally(Reply(rq[r], 500, "Error interno del servidor Serverless", out),
                                  rq[r].loc.filePath, fails))
    /\ UNCHANGED << store, readyState, started, acks, idIn, idOut >>

GenNext ==
    \E r \in Reqs :
        \/ directo_Start(r)
        \/ directo_Parsed(r)
        \/ directo_Read(r)
        \/ directo_Generated(r)
        \/ esquema_Start(r)
        \/ esquema_Parsed(r)
        \/ esquema_Generated(r)
        \/ ocr_Start(r)
        \/ ocr_Parsed(r)
        \/ ocr_Detected(r)
        \/ ocr_Generated(r)

GenSpec == Init /\ [][GenNext]_vars

(***************************************************************************)
(* The id generator alone, over the whole grid of random values.           *)
(***************************************************************************)
IdInit ==
    /\ rq = [r \in Reqs |-> Idle]
    /\ fin = Idle
    /\ store = {}
    /\ readyState = 0
    /\ started = 0
    /\ acks = {}
    /\ idIn \in 0..(RandDen - 1)
    /\ idOut = << >>

IdGenerate ==
    /\ idOut = << >>
    /\ idOut' = generateUniqueId(idIn)
    /\ UNCHANGED << rq, fin, store, readyState, started, acks, idIn >>

IdSpec == IdInit /\ [][IdGenerate]_vars

Next ==
    \E r \in Reqs :
        \/ guardar_Start(r)
        \/ guardar_Connected(r)
        \/ guardar_Resume(r)
        \/ guardar_WriteApplied(r)
        \/ guardar_SaveDone(r)
        \/ guardar_Respond(r)
        \/ obtener_Start(r)
        \/ obtener_Connected(r)
        \/ obtener_Resume(r)
        \/ obtener_FindDone(r)
        \/ obtener_Respond(r)

Spec == Init /\ [][Next]_vars

(***************************************************************************)
(* Properties.                                                             *)
(***************************************************************************)
Status(q) == q.res[Len(q.res)].status

PayloadFields == {"puntuacion", "respuestas", "totalPreguntas", "examen"}

GenKinds == {"directo", "esquema", "ocr"}

\* the requests of the state: the ones in flight and the one that ended last
Requests == { rq[r] : r \in Reqs } \cup {fin}

\* C1: when a generation request has ended, every file it stored in the
\* temporary directory is gone and was unlinked exactly once.
C1_TempFilesReleased ==
    (fin.kind \in GenKinds /\ fin.pc = "done") =>
        \A i \in 1..Len(fin.tmp) : ~fin.tmp[i].exists /\ fin.tmp[i].unlinks = 1

\* a save that is about to insert under an id that a stored document has
C2_Collides(r) ==
    /\ rq[r].pc = "g_save"
    /\ Validates(rq[r].loc.newResultado)
    /\ \E d \in store : d.uniqueId = rq[r].loc.uniqueId

\* C2: no two stored documents share a uniqueId, no step removes or alters a
\* stored document, and a save whose id is already stored leaves the store
\* as it is and is answered with a 5xx.
C2_UniqueIds ==
    [][ /\ \A d, e \in store' : d.uniqueId = e.uniqueId => d = e
        /\ store \subseteq store'
        /\ \A r \in Reqs :
             (C2_Collides(r) /\ rq'[r] # rq[r]) =>
                /\ store' = store
                /\ fin'.kind = "guardar"
                /\ Len(fin'.res) = 1
                /\ Status(fin') >= 500 ]_vars

C2_Witness ==
    /\ fin.kind = "guardar"
    /\ fin.pc = "done"
    /\ Status(fin) = 500
    /\ fin.res[1].data = "E11000 duplicate key"
    /\ \E d \in store : d.uniqueId = fin.loc.uniqueId /\ d \notin fin.wrote

\* a get request that ended with the answer of its lookup
LookedUp(q) == q.kind = "obtener" /\ q.pc = "done" /\ DOMAIN q.loc = {"found"}

\* a payload of the types the schema declares
WellTyped(b) ==
    /\ b.puntuacion.t = "number"
    /\ b.totalPreguntas.t = "number"
    /\ b.respuestas.t = "object" /\ DOMAIN b.respuestas.m # {}
    /\ b.examen.t = "array"

\* C3 as stated: once a save is answered 201 with shareId s, a lookup of s
\* whose query runs later is answered 200 with a document whose four payload
\* fields equal the saved payload verbatim, with uniqueId s and a timestamp.
C3_RoundTripVerbatim ==
    \A a \in acks :
        /\ \E d \in store : d.uniqueId = a.shareId
        /\ (LookedUp(fin) /\ fin.acked /\ fin.inp.shareId = Str(a.shareId)) =>
              /\ Status(fin) = 200
              /\ LET d == fin.res[1].data.resultado IN
                 /\ d.uniqueId = a.shareId
                 /\ d.timestamp \in 1..started
                 /\ \A f \in PayloadFields : d[f] = a.body[f]

\* C3 for well-typed payloads: once a save is answered 201 with shareId s, a
\* lookup of s whose query runs later is answered 200 with the stored
\* document, which has uniqueId s, a timestamp, a numeric score and
\* totalQuestions and an array exam; its four payload fields equal the saved
\* payload verbatim when the payload's numbers are numbers, its answers a
\* non-empty object and its exam an array. A lookup whose query ran before
\* the save committed is answered 404, also after the 201.
C3_RoundTrip ==
    \A a \in acks :
        /\ \E d \in store : d.uniqueId = a.shareId
        /\ (LookedUp(fin) /\ fin.inp.shareId = Str(a.shareId)) =>
              (fin.acked \/ Status(fin) = 200 \/ fin.loc.found = {})
        /\ (LookedUp(fin) /\ fin.acked /\ fin.inp.shareId = Str(a.shareId)) =>
              /\ Status(fin) = 200
              /\ LET d == fin.res[1].data.resultado IN
                 /\ d \in store
                 /\ d.uniqueId = a.shareId
                 /\ d.timestamp \in 1..started
                 /\ d.puntuacion.t = "number"
                 /\ d.totalPreguntas.t = "number"
                 /\ d.examen.t = "array"
                 /\ WellTyped(a.body) => \A f \in PayloadFields : d[f] = a.body[f]

C3_Witness ==
    /\ LookedUp(fin) /\ fin.acked
    /\ Status(fin) = 200
    /\ \E a \in acks : fin.inp.shareId = Str(a.shareId) /\ WellTyped(a.body)

\* a save request that ended after its validation had run
Validated(q) ==
    /\ q.kind = "guardar" /\ q.method = "POST" /\ q.pc = "done"
    /\ ~(Status(q) = 500 /\ q.res[1].data = "No se pudo conectar a la base de datos.")

\* C4: a save is refused with 400 exactly when one of the four fields is
\* absent or null.
C4_MissingFieldIff ==
    Validated(fin) =>
        (Status(fin) = 400 <=> \E f \in PayloadFields : Nullish(fin.inp[f]))

\* C5 as stated: a save answered 201 has its document in the store, inserted
\* by that request; a save answered otherwise (405, 400, 500) inserted
\* nothing; and every stored document belongs to a save answered 201 or to
\* one whose insert was applied and that has not answered yet.
C5_FailureStoresNothing ==
    /\ (fin.kind = "guardar" /\ fin.pc = "done") =>
          /\ Len(fin.res) = 1
          /\ IF Status(fin) = 201
             THEN \E d \in store :
                     /\ d.uniqueId = fin.res[1].data.shareId
                     /\ fin.wrote = {d}
             ELSE /\ Status(fin) \in {400, 405, 500}
                  /\ fin.wrote = {}
    /\ \A d \in store :
          \/ \E a \in acks : a.shareId = d.uniqueId
          \/ \E r \in Reqs : rq[r].pc \in {"g_saved", "g_save"} /\ rq[r].wrote = {d}
    /\ \A r \in Reqs : rq[r].res = << >>

\* the state after a save request ended: a 201 has its document in the
\* store, inserted by that request; a 405, a 400 and a 500 of the connection,
\* of the validation or of a duplicate id inserted nothing; a 500 of a failed
\* operation inserted nothing or the one document of the request, whose id
\* no response gave
C5_SaveEnded ==
    /\ (fin.kind = "guardar" /\ fin.pc = "done") =>
          /\ Len(fin.res) = 1
          /\ IF Status(fin) = 201
             THEN \E d \in store :
                     /\ d.uniqueId = fin.res[1].data.shareId
                     /\ fin.wrote = {d}
             ELSE /\ Status(fin) \in {400, 405, 500}
                  /\ fin.wrote # {} =>
                        /\ Status(fin) = 500
                        /\ fin.res[1].data = "operation failed"
                        /\ fin.wrote = {ToDocument(fin.loc.newResultado)}
                        /\ fin.wrote \subseteq store
                        /\ \A a \in acks : a.shareId # fin.loc.uniqueId
    /\ \A a \in acks : \E d \in store : d.uniqueId = a.shareId
    /\ \A r \in Reqs : rq[r].res = << >>

\* the store changes only by the one insert of a save that has passed the
\* validation, on an established connection, while its handler is suspended
\* at the await of save() and has sent nothing
C5_Commit ==
    store' # store =>
        \E r \in Reqs :
            /\ rq[r].pc = "g_save" /\ rq[r].wrote = {}
            /\ readyState = 1
            /\ Validates(rq[r].loc.newResultado)
            /\ store' = store \cup {ToDocument(rq[r].loc.newResultado)}
            /\ rq'[r].pc \in {"g_saved", "g_save"}
            /\ rq'[r].wrote = {ToDocument(rq[r].loc.newResultado)}
            /\ rq'[r].res = << >>

\* C5 amended: a save answers 201 with a shareId only after the document
\* with that id is in the store; a save answered 405, 400, or 500 for a failed
\* connection, a failed validation or a duplicate id leaves the store
\* unchanged; a save answered 500 for a failed operation leaves it unchanged
\* or holding the document of the request, under an id no client was given.
C5_CommitBeforeRespond == []C5_SaveEnded /\ [][C5_Commit]_vars

C5_Witness ==
    /\ fin.kind = "guardar"
    /\ fin.pc = "done"
    /\ Status(fin) = 201
    /\ fin.wrote # {}

\* C6: a POST request that has ended was answered exactly once, with JSON,
\* no exception left the handler, and a failure has a 4xx or 5xx status.
C6_AlwaysAnswered ==
    (fin.pc = "done" /\ fin.method = "POST") =>
        /\ ~fin.escaped
        /\ Len(fin.res) = 1
        /\ fin.res[1].json
        /\ fin.res[1].error # "" => Status(fin) >= 400

\* C7: a generation request without uploaded material is answered 400 with
\* no provider call, and a provider is called only after a material was read.
C7_NoMaterialNoProvider ==
    \A q \in Requests :
        q.kind \in GenKinds =>
            /\ (q.calls.ocr + q.calls.gen > 0) => q.calls.reads > 0
            /\ (q.pc = "done" /\ q.method = "POST" /\ q.inp.upload = << >>
                /\ q.res # << >> /\ q.res[1].data # "parse error") =>
                  /\ Status(q) = 400
                  /\ q.calls.ocr = 0
                  /\ q.calls.gen = 0

\* a direct-image request without files was answered 400 with no provider call
C7_Witness ==
    /\ fin.kind = "directo" /\ fin.pc = "done" /\ fin.method = "POST"
    /\ fin.inp.upload = << >>
    /\ fin.res # << >> /\ Status(fin) = 400
    /\ fin.calls.reads = 0 /\ fin.calls.ocr = 0 /\ fin.calls.gen = 0

\* the state after a get request ended
C8_GetEnded ==
    (fin.kind = "obtener" /\ fin.method = "GET" /\ fin.pc = "done") =>
        /\ ~fin.escaped
        /\ Len(fin.res) = 1
        /\ fin.res[1].json
        /\ Falsy(fin.inp.shareId) =>
              /\ Status(fin) = 400
              /\ fin.res[1].error # ""
              /\ fin.calls.db = 0
        /\ (~Falsy(fin.inp.shareId)
            /\ ~\E d \in store : d.uniqueId = fin.inp.shareId.s) =>
              /\ Status(fin) \in {404, 500}
              /\ fin.res[1].error # ""
              /\ LookedUp(fin) => (Status(fin) = 404 /\ fin.res[1].data = "")
        /\ Status(fin) = 200 =>
              /\ fin.res[1].data.resultado \in store
              /\ fin.res[1].data.resultado.uniqueId = fin.inp.shareId.s

\* C8: a get whose shareId equals no stored id exactly is answered 404 with an
\* error body when its lookup runs, never 200 and never by an exception; a
\* get without shareId is answered 400 with no database call; and no step of
\* a get request changes the store.
C8_LookupMiss ==
    [][ /\ C8_GetEnded'
        /\ (\E r \in Reqs : rq'[r] # rq[r] /\ "obtener" \in {rq[r].kind, rq'[r].kind})
              => store' = store ]_vars

C8_Witness ==
    /\ LookedUp(fin)
    /\ Status(fin) = 404
    /\ \E d \in store : /\ d.uniqueId # fin.inp.shareId.s
                        /\ d.uniqueId = toUpperCase(fin.inp.shareId.s)

\* C9: every id the generator produces is 'R_' followed by exactly six
\* characters of A-Z, 0-9.
C9_IdFormat ==
    idOut # << >> =>
        /\ Len(idOut) = 8
        /\ idOut[1] = "R" /\ idOut[2] = "_"
        /\ \A i \in 3..Len(idOut) : idOut[i] \in CharSet(Upper36)

\* the OCR result has text of the minimum length
C10_EnoughText(q) ==
    q.loc.studyText.t = "string" /\ Len(q.loc.studyText.s) >= MinOcrText

\* C10: in the OCR variant the generation provider is called exactly when the
\* OCR result has text of length 50 or more; otherwise the request ends with
\* the insufficient-text error and no generation call.
C10_OcrGuard ==
    \A q \in Requests :
        q.kind = "ocr" =>
            IF "studyText" \in DOMAIN q.loc
            THEN /\ q.calls.gen = (IF C10_EnoughText(q) THEN 1 ELSE 0)
                 /\ ~C10_EnoughText(q) =>
                       /\ q.pc = "done"
                       /\ Status(q) = 500
                       /\ q.res[1].error = "OCR fallo"
                 /\ C10_EnoughText(q) =>
                       \/ q.pc = "c_gen"
                       \/ q.pc = "done" /\ q.res[1].error # "OCR fallo"
            ELSE q.calls.gen = 0

C10_Witness ==
    /\ fin.kind = "ocr"
    /\ fin.pc = "done"
    /\ "studyText" \in DOMAIN fin.loc
    /\ fin.loc.studyText.t = "string"
    /\ Len(fin.loc.studyText.s) = MinOcrText
    /\ fin.calls.gen = 1

\* the requests waiting on mongoose.connect, and those waiting on a query
C11_Connecting == { r \in Reqs : rq[r].pc \in {"g_connect", "o_connect"} }

C11_Querying == { r \in Reqs : rq[r].pc \in {"g_save", "o_find"} }

\* the requests whose attempt failed and that have not resumed yet
C11_Failed == { r \in Reqs : rq[r].pc \in {"g_throw", "o_throw"} }

\* at most one connection attempt is under way, exactly while readyState is 2
C11_OneAttempt ==
    /\ Cardinality(C11_Connecting) <= 1
    /\ (readyState = 2) <=> (C11_Connecting # {})

C11_Step ==
    \* established at most once: once connected it stays so, and it becomes
    \* connected only by the one attempt under way
    /\ readyState = 1 => readyState' = 1
    /\ (readyState # 1 /\ readyState' = 1) => readyState = 2
    \* the setup called while connected or connecting starts no attempt
    /\ readyState # 0 => C11_Connecting' \subseteq C11_Connecting
    /\ (readyState' = 2 /\ readyState # 2) => readyState = 0
    \* the request whose attempt fails issues no query: it reports a 5xx when
    \* it resumes, and leaves the store
    /\ \A r \in C11_Connecting :
         readyState' = 0 => rq'[r].pc \in {"g_throw", "o_throw"}
    /\ \A r \in C11_Failed :
         rq'[r] # rq[r] =>
             /\ rq'[r] = Idle
             /\ fin'.kind = rq[r].kind /\ fin'.inp = rq[r].inp
             /\ fin'.calls = rq[r].calls
             /\ Status(fin') >= 500
             /\ store' = store
    \* a query that settles while the connection is not established makes
    \* its request report a 5xx and leaves the store
    /\ \A r \in C11_Querying :
         (rq'[r] # rq[r] /\ readyState # 1) =>
             /\ rq'[r] = Idle
             /\ fin'.kind = rq[r].kind /\ fin'.inp = rq[r].inp
             /\ Status(fin') >= 500
             /\ store' = store

\* C11: across the interleavings of save and get requests the connection is
\* established at most once and then reused; the setup called while the
\* connection is established or being established starts no second attempt;
\* and a query settling on a connection whose establishment failed makes
\* its request report a 5xx.
C11_LazySingleton == []C11_OneAttempt /\ [][C11_Step]_vars

\* an attempt has failed with 500 while a concurrent request, which skipped
\* the setup during the attempt, has its query pending
C11_Witness ==
    /\ readyState = 0
    /\ C11_Querying # {}
    /\ fin.pc = "done" /\ fin.method \in {"POST", "GET"}
    /\ fin.kind \in {"guardar", "obtener"}
    /\ Status(fin) = 500
    /\ fin.res[Len(fin.res)].data \in {"No se pudo conectar a la base de datos.", "connect failed"}

====
